---- MODULE Spec2Model ----
(***************************************************************************)
(* Content-item tree engine of golden-layout (AbstractContentItem.ts).     *)
(*                                                                         *)
(* A node is an integer of Nodes.  The fields of every node are functions  *)
(* over Nodes.  The methods of AbstractContentItem are operators over a    *)
(* record S holding all the fields (the heap); a method that calls another *)
(* method applies that method's operator to the heap it has built so far.  *)
(* S.err is the message of the exception in flight ("" when none): every   *)
(* operator leaves a heap with an exception in flight untouched, which is  *)
(* how a throw unwinds the calling methods.                                *)
(***************************************************************************)
EXTENDS Integers, Sequences, FiniteSets, TLC

(* ------------------------------ bounds -------------------------------- *)
NumNodes == 5
MaxSteps == 3
MaxBurst == 3

Nodes == 0 .. (NumNodes - 1)

(* ------------------------- program constants -------------------------- *)
Null == -1
undefined == -2
RootNode == 0
throttledEvents == {"stateChanged"}
NoError == ""
UnknownChildError == "Can't remove child item. Unknown content item"
NotChildError == "Can't replace child. oldChild is not child of this"
IdNotFoundError == "Id not found"
TypeError == "TypeError"
RangeError == "RangeError: Maximum call stack size exceeded"

IsRoot(n) == n = RootNode

TypeOf(n) == IF n = RootNode THEN "root"
             ELSE IF n = 1 THEN "row"
             ELSE IF n = 2 THEN "stack"
             ELSE "component"

(* ------------------------------- state -------------------------------- *)
VARIABLES
    contentItems,   \* contentItems[n]: the sequence of children of n
    parent,         \* parent[n]: a node or Null
    isInitialised,  \* isInitialised[n]
    config,         \* config[n]: [content, contentDefined, isClosable, id,
                    \*             title]
    pending,        \* _pendingEventPropagations of n: the names set to true
    frames,         \* callbacks handed to animFrame and not yet run
    destroyed,      \* nodes whose element has been removed by _$destroy
    trace,          \* the calls made by the last operation, in order
    last,           \* the last operation: name, receiver, arguments, error
    burst,          \* burst[t]: stateChanged emits below t since its flush
    added,          \* added[n]: ids added to n and not removed since
    steps           \* number of operations performed

vars == <<contentItems, parent, isInitialised, config, pending, frames,
          destroyed, trace, last, burst, added, steps>>

Heap == [contentItems |-> contentItems, parent |-> parent,
         isInitialised |-> isInitialised, config |-> config,
         pending |-> pending, frames |-> frames, destroyed |-> destroyed,
         trace |-> <<>>, err |-> NoError, stopAt |-> Null]

(* ------------------------- array primitives --------------------------- *)
Min(a, b) == IF a < b THEN a ELSE b
Max(a, b) == IF a > b THEN a ELSE b

\* Array.prototype.indexOf: 0-based index of the first occurrence, or -1
indexOf(x, arr) ==
    IF \E i \in 1 .. Len(arr) : arr[i] = x
    THEN (CHOOSE i \in 1 .. Len(arr) :
              arr[i] = x /\ \A j \in 1 .. (i - 1) : arr[j] # x) - 1
    ELSE -1

\* Array.prototype.splice(start, deleteCount, ...items), 0-based start
splice(arr, start, deleteCount, items) ==
    LET s == IF start > Len(arr) THEN Len(arr)
             ELSE IF start < 0 THEN Max(Len(arr) + start, 0)
             ELSE start
        d == Min(Max(deleteCount, 0), Len(arr) - s)
    IN  SubSeq(arr, 1, s) \o items \o SubSeq(arr, s + d + 1, Len(arr))

(* ------------------------------ tracing ------------------------------- *)
Call(c, n, name, idx) == [call |-> c, node |-> n, name |-> name, index |-> idx]

Log(S, e) == [S EXCEPT !.trace = Append(@, e)]

Throw(S, msg) == [S EXCEPT !.err = msg]

(* ----------------------- event bubbling & batching -------------------- *)
\* new BubblingEvent(name, origin)
BubblingEvent(origin) == [bubbling |-> TRUE, origin |-> origin]

\* an event argument that is no BubblingEvent (a title, or none at all)
PlainEvent == [bubbling |-> FALSE, origin |-> Null]

\* scheduling a flush for every occurrence, the pending flag never consulted
scheduleEventPropagationToLayoutManager_noFlag(S, n, name, event) ==
    LET S0 == Log(S, Call("scheduleEventPropagationToLayoutManager", n, name,
                          Null))
    IN  IF name \notin throttledEvents
        THEN Log(S0, Call("layoutManager.emit", event.origin, name, Null))
        ELSE [S0 EXCEPT !.pending[n] = @ \cup {name},
                        !.frames = Append(@, [node |-> n, name |-> name,
                                              origin |-> event.origin])]

\* the pending flag and the flush kept by the node the event was emitted on
scheduleEventPropagationToLayoutManager_byOrigin(S, n, name, event) ==
    LET S0 == Log(S, Call("scheduleEventPropagationToLayoutManager", n, name,
                          Null))
        o == event.origin
    IN  IF name \notin throttledEvents
        THEN Log(S0, Call("layoutManager.emit", o, name, Null))
        ELSE IF name \notin S0.pending[o]
             THEN [S0 EXCEPT !.pending[o] = @ \cup {name},
                             !.frames = Append(@, [node |-> o, name |-> name,
                                                   origin |-> o])]
             ELSE S0

\* every name handed to animFrame, the throttled set never consulted
scheduleEventPropagationToLayoutManager_deferAll(S, n, name, event) ==
    LET S0 == Log(S, Call("scheduleEventPropagationToLayoutManager", n, name,
                          Null))
    IN  IF name \notin S0.pending[n]
        THEN [S0 EXCEPT !.pending[n] = @ \cup {name},
                        !.frames = Append(@, [node |-> n, name |-> name,
                                              origin |-> event.origin])]
        ELSE S0

\* scheduleEventPropagationToLayoutManager(name, event) on node n
scheduleEventPropagationToLayoutManager(S, n, name, event) ==
    LET S0 == Log(S, Call("scheduleEventPropagationToLayoutManager", n, name,
                          Null))
    IN  IF name \notin throttledEvents
        THEN Log(S0, Call("layoutManager.emit", event.origin, name, Null))
        ELSE IF name \notin S0.pending[n]
             THEN [S0 EXCEPT !.pending[n] = @ \cup {name},
                             !.frames = Append(@, [node |-> n, name |-> name,
                                                   origin |-> event.origin])]
             ELSE S0

RECURSIVE propagateEvent(_, _, _, _, _)

\* emit(name, event) / emitUnknown(name, event) of the EventEmitter on node n:
\* the subscribers of n run, a subscriber of node S.stopAt stops the
\* propagation of the event, and the catch-all subscription made by the
\* constructor runs propagateEvent
emit(S, n, name, event, visited) ==
    IF S.err # NoError THEN S
    ELSE propagateEvent(Log(S, Call("emit", n, name, Null)), n, name, event,
                        visited)

\* propagateEvent forwarding whether or not the node is initialised
propagateEvent_uninitialised(S, n, name, event, visited) ==
    IF S.err # NoError THEN S
    ELSE IF n \in visited THEN Throw(S, RangeError)
    ELSE IF event.bubbling /\ n # S.stopAt
    THEN IF ~IsRoot(n) /\ S.parent[n] # Null
         THEN emit(S, S.parent[n], name, event, visited \cup {n})
         ELSE scheduleEventPropagationToLayoutManager(S, n, name, event)
    ELSE S

\* propagateEvent handing every event to the layout manager itself
propagateEvent_direct(S, n, name, event, visited) ==
    IF S.err # NoError THEN S
    ELSE IF event.bubbling /\ n # S.stopAt /\ S.isInitialised[n]
    THEN scheduleEventPropagationToLayoutManager(S, n, name, event)
    ELSE S

\* propagateEvent(name, event) on node n; visited is the chain of emitters
\* the event has passed through in this call stack: meeting one of them again
\* is an unbounded recursion, which ends in a RangeError
propagateEvent(S, n, name, event, visited) ==
    IF S.err # NoError THEN S
    ELSE IF n \in visited THEN Throw(S, RangeError)
    ELSE IF event.bubbling /\ n # S.stopAt /\ S.isInitialised[n]
    THEN IF ~IsRoot(n) /\ S.parent[n] # Null
         THEN emit(S, S.parent[n], name, event, visited \cup {n})
         ELSE scheduleEventPropagationToLayoutManager(S, n, name, event)
    ELSE S

\* emitBubblingEvent(name) on node n
emitBubblingEvent(S, n, name) ==
    IF S.err # NoError THEN S
    ELSE emit(S, n, name, BubblingEvent(n), {})

\* setTitle(title) on node n: two plain emits
setTitle(S, n, title) ==
    LET S1 == [S EXCEPT !.config[n].title = title]
        S2 == emit(S1, n, "titleChanged", PlainEvent, {})
    IN  emit(S2, n, "stateChanged", PlainEvent, {})

\* the animFrame callback delivering without clearing the pending flag
propagateEventToLayoutManager_keepFlag(S, n, name, origin) ==
    Log(S, Call("layoutManager.emit", origin, name, Null))

\* propagateEventToLayoutManager(name, event), the animFrame callback
propagateEventToLayoutManager(S, n, name, origin) ==
    LET S1 == [S EXCEPT !.pending[n] = @ \ {name}]
    IN  Log(S1, Call("layoutManager.emit", origin, name, Null))

(* ------------------------------ lifecycle ----------------------------- *)
\* _$init() on node n
_init(S, n) ==
    IF S.err # NoError THEN S
    ELSE LET S1 == Log(Log(S, Call("_$init", n, "", Null)),
                       Call("setSize", n, "", Null))
             S2 == [S1 EXCEPT !.isInitialised[n] = TRUE]
             S3 == emitBubblingEvent(S2, n, "itemCreated")
         IN  emitBubblingEvent(S3, n, TypeOf(n) \o "Created")

\* _$destroy removing the element before the first notification
_destroy_detachFirst(S, n) ==
    IF S.err # NoError THEN S
    ELSE LET S1 == Log(S, Call("_$destroy", n, "", Null))
             S2 == Log([S1 EXCEPT !.destroyed = @ \cup {n}],
                       Call("element.remove", n, "", Null))
             S3 == emitBubblingEvent(S2, n, "beforeItemDestroyed")
         IN  emitBubblingEvent(S3, n, "itemDestroyed")

\* _$destroy() on node n
_destroy(S, n) ==
    IF S.err # NoError THEN S
    ELSE LET S1 == Log(S, Call("_$destroy", n, "", Null))
             S2 == emitBubblingEvent(S1, n, "beforeItemDestroyed")
             S3 == IF S2.err # NoError THEN S2
                   ELSE Log([S2 EXCEPT !.destroyed = @ \cup {n}],
                            Call("element.remove", n, "", Null))
         IN  emitBubblingEvent(S3, n, "itemDestroyed")

(* --------------------------- the tree-walker -------------------------- *)
\* this[functionName].apply(this, functionArguments) for the two methods the
\* tree-walker is used with
Invoke(S, n, functionName) ==
    IF S.err # NoError THEN S
    ELSE IF functionName = "setSize"
    THEN Log(S, Call("setSize", n, "", Null))
    ELSE _destroy(S, n)

\* callDownwards(functionName, functionArguments, bottomUp, skipSelf) on n;
\* path is the set of receivers on the call stack: meeting one of them again
\* is an unbounded recursion, which ends in a RangeError
RECURSIVE callDownwards(_, _, _, _, _, _)
RECURSIVE callDownwardsLoop(_, _, _, _, _, _)
callDownwards(S, n, functionName, bottomUp, skipSelf, path) ==
    IF S.err # NoError THEN S
    ELSE IF n \in path THEN Throw(S, RangeError)
    ELSE LET S1 == IF ~bottomUp /\ ~skipSelf
                   THEN Invoke(Invoke(S, n, functionName), n, functionName)
                   ELSE S
             S2 == callDownwardsLoop(S1, n, 0, functionName, bottomUp,
                                     path \cup {n})
         IN  IF bottomUp /\ ~skipSelf
             THEN Invoke(S2, n, functionName)
             ELSE S2

\* the for loop of callDownwards from index i on
callDownwardsLoop(S, n, i, functionName, bottomUp, path) ==
    IF S.err # NoError \/ ~(i < Len(S.contentItems[n])) THEN S
    ELSE callDownwardsLoop(
             callDownwards(S, S.contentItems[n][i + 1], functionName,
                           bottomUp, FALSE, path),
             n, i + 1, functionName, bottomUp, path)

(* -------------------------- mutation engine --------------------------- *)
RECURSIVE removeChild(_, _, _, _)

\* the subtree walk of the teardown not skipping the child itself
destroyChild_noSkip(S, contentItem, keepChild) ==
    IF S.err # NoError \/ keepChild THEN S
    ELSE callDownwards(_destroy(S, contentItem), contentItem, "_$destroy",
                       TRUE, FALSE, {})

\* removeChild, lines 136-139: unless the child is kept, _$destroy on it and
\* then on its descendants, bottom-up, the child itself skipped
destroyChild(S, contentItem, keepChild) ==
    IF S.err # NoError \/ keepChild THEN S
    ELSE callDownwards(_destroy(S, contentItem), contentItem, "_$destroy",
                       TRUE, TRUE, {})

\* removeChild, lines 144-149: the entry at index leaves contentItems, then
\* config.content
spliceChild(S, self, index) ==
    IF S.err # NoError THEN S
    ELSE LET S1 == [S EXCEPT !.contentItems[self] = splice(@, index, 1, <<>>)]
         IN  IF ~S1.config[self].contentDefined THEN Throw(S1, TypeError)
             ELSE [S1 EXCEPT !.config[self].content =
                                 splice(@, index, 1, <<>>)]

\* the cascade removing also a receiver that is not closable
resizeOrCollapse_ignoreClosable(S, self) ==
    IF S.err # NoError THEN S
    ELSE IF Len(S.contentItems[self]) > 0
    THEN callDownwards(S, self, "setSize", FALSE, FALSE, {})
    ELSE IF ~IsRoot(self)
    THEN IF S.parent[self] = Null THEN Throw(S, TypeError)
         ELSE removeChild(S, S.parent[self], self, FALSE)
    ELSE S

\* removeChild, lines 154-162: resize the remaining children, or remove the
\* emptied receiver from its own parent
resizeOrCollapse(S, self) ==
    IF S.err # NoError THEN S
    ELSE IF Len(S.contentItems[self]) > 0
    THEN callDownwards(S, self, "setSize", FALSE, FALSE, {})
    ELSE IF ~IsRoot(self) /\ S.config[self].isClosable
    THEN IF S.parent[self] = Null THEN Throw(S, TypeError)
         ELSE removeChild(S, S.parent[self], self, FALSE)
    ELSE S

\* removeChild validating its argument only after the teardown
removeChild_lateCheck(S, self, contentItem, keepChild) ==
    LET index == indexOf(contentItem, S.contentItems[self])
        S1 == destroyChild(S, contentItem, keepChild)
    IN  IF S1.err # NoError THEN S1
        ELSE IF index = -1 THEN Throw(S1, UnknownChildError)
        ELSE resizeOrCollapse(spliceChild(S1, self, index), self)

\* removeChild(contentItem, keepChild) on self
removeChild(S, self, contentItem, keepChild) ==
    IF S.err # NoError THEN S
    ELSE LET index == indexOf(contentItem, S.contentItems[self])
         IN  IF index = -1 THEN Throw(S, UnknownChildError)
             ELSE resizeOrCollapse(
                      spliceChild(destroyChild(S, contentItem, keepChild),
                                  self, index),
                      self)

\* addChild keeping config.content by appending to it
addChild_push(S, self, contentItem, index) ==
    LET idx == IF index = undefined THEN Len(S.contentItems[self]) ELSE index
        S1 == [S EXCEPT !.contentItems[self] =
                            splice(@, idx, 0, <<contentItem>>),
                        !.config[self].content = Append(@, contentItem),
                        !.config[self].contentDefined = TRUE,
                        !.parent[contentItem] = self]
    IN  IF S1.isInitialised[self] /\ ~S1.isInitialised[contentItem]
        THEN _init(S1, contentItem)
        ELSE S1

\* addChild initialising the new child whatever the two flags say
addChild_alwaysInit(S, self, contentItem, index) ==
    LET idx == IF index = undefined THEN Len(S.contentItems[self]) ELSE index
        S1 == [S EXCEPT !.contentItems[self] =
                            splice(@, idx, 0, <<contentItem>>)]
        S2 == IF ~S1.config[self].contentDefined
              THEN [S1 EXCEPT !.config[self].content = <<>>,
                              !.config[self].contentDefined = TRUE]
              ELSE S1
        S3 == [S2 EXCEPT !.config[self].content =
                             splice(@, idx, 0, <<contentItem>>),
                         !.parent[contentItem] = self]
    IN  _init(S3, contentItem)

\* addChild(contentItem, index) on self; index = undefined when omitted
addChild(S, self, contentItem, index) ==
    LET idx == IF index = undefined THEN Len(S.contentItems[self]) ELSE index
        S1 == [S EXCEPT !.contentItems[self] =
                            splice(@, idx, 0, <<contentItem>>)]
        S2 == IF ~S1.config[self].contentDefined
              THEN [S1 EXCEPT !.config[self].content = <<>>,
                              !.config[self].contentDefined = TRUE]
              ELSE S1
        S3 == [S2 EXCEPT !.config[self].content =
                             splice(@, idx, 0, <<contentItem>>),
                         !.parent[contentItem] = self]
    IN  IF S3.isInitialised[S3.parent[contentItem]]
           /\ ~S3.isInitialised[contentItem]
        THEN _init(S3, contentItem)
        ELSE S3

\* layoutManager._$normalizeContentItem(newChild) for a constructed node
normalizeContentItem(newChild) == newChild

\* processChildReplaced(index, newChild) on self: the empty virtual hook; the
\* record of the call says whether the hook finds newChild wired in at index
processChildReplaced(S, self, index, newChild) ==
    Log(S, Call("processChildReplaced", newChild,
                IF S.contentItems[self][index + 1] = newChild
                   /\ S.parent[newChild] = self THEN "wired" ELSE "unwired",
                index))

\* replaceChild looking for oldChild only after wiring newChild
replaceChild_lateCheck(S, self, oldChild, newChildArg, destroyOldChild, hasParentNode) ==
    LET index == indexOf(oldChild, S.contentItems[self])
        S1 == [S EXCEPT !.parent[newChildArg] = self]
    IN  IF index = -1 THEN Throw(S1, NotChildError)
        ELSE IF ~hasParentNode THEN Throw(S, TypeError)
        ELSE callDownwards(
                 processChildReplaced(
                     [S1 EXCEPT !.contentItems[self][index + 1] = newChildArg],
                     self, index, newChildArg),
                 self, "setSize", FALSE, FALSE, {})

\* replaceChild calling the hook before the rewiring and after the teardown
replaceChild_hookFirst(S, self, oldChild, newChildArg, destroyOldChild, hasParentNode) ==
    LET index == indexOf(oldChild, S.contentItems[self])
    IN
    IF index = -1 THEN Throw(S, NotChildError)
    ELSE IF ~hasParentNode THEN Throw(S, TypeError)
    ELSE LET S1 == IF destroyOldChild
                   THEN _destroy([S EXCEPT !.parent[oldChild] = Null],
                                 oldChild)
                   ELSE S
             S2 == IF S1.err # NoError THEN S1
                   ELSE processChildReplaced(S1, self, index, newChildArg)
             S3 == IF S2.err # NoError THEN S2
                   ELSE [S2 EXCEPT
                            !.contentItems[self][index + 1] = newChildArg,
                            !.parent[newChildArg] = self]
             S4 == IF S3.err # NoError THEN S3
                   ELSE IF S3.isInitialised[S3.parent[newChildArg]]
                           /\ ~S3.isInitialised[newChildArg]
                   THEN _init(S3, newChildArg)
                   ELSE S3
         IN  callDownwards(S4, self, "setSize", FALSE, FALSE, {})

\* replaceChild(oldChild, newChild, _$destroyOldChild) on self;
\* hasParentNode: whether oldChild.element[0].parentNode is a DOM node
replaceChild(S, self, oldChild, newChildArg, destroyOldChild, hasParentNode) ==
    LET newChild == normalizeContentItem(newChildArg)
        index == indexOf(oldChild, S.contentItems[self])
    IN
    IF index = -1 THEN Throw(S, NotChildError)
    ELSE IF ~hasParentNode THEN Throw(S, TypeError)
    ELSE LET S1 == IF destroyOldChild
                   THEN _destroy([S EXCEPT !.parent[oldChild] = Null],
                                 oldChild)
                   ELSE S
             S2 == IF S1.err # NoError THEN S1
                   ELSE [S1 EXCEPT !.contentItems[self][index + 1] = newChild,
                                   !.parent[newChild] = self]
             S3 == IF S2.err # NoError THEN S2
                   ELSE processChildReplaced(S2, self, index, newChild)
             S4 == IF S3.err # NoError THEN S3
                   ELSE IF S3.isInitialised[S3.parent[newChild]]
                           /\ ~S3.isInitialised[newChild]
                   THEN _init(S3, newChild)
                   ELSE S3
         IN  callDownwards(S4, self, "setSize", FALSE, FALSE, {})

\* remove() passing keepChild true to the parent
remove_keepChild(S, n) ==
    IF S.parent[n] = Null THEN Throw(S, TypeError)
    ELSE removeChild(S, S.parent[n], n, TRUE)

\* remove() on node n: this.parent.removeChild(this)
remove(S, n) ==
    IF S.parent[n] = Null THEN Throw(S, TypeError)
    ELSE removeChild(S, S.parent[n], n, FALSE)

(* ------------------------------- selector ----------------------------- *)
RECURSIVE filterNext(_, _, _, _, _)
RECURSIVE filterLoop(_, _, _, _, _, _)

\* getItemsByFilter: the closure next(contentItem); R is [result, trace, err],
\* filter the set of nodes on which the filter function returns true, path the
\* nodes on the call stack (meeting one again is an unbounded recursion)
filterNext(R, ci, contentItem, filter, path) ==
    IF R.err # NoError THEN R
    ELSE IF contentItem \in path THEN [R EXCEPT !.err = RangeError]
    ELSE filterLoop(R, ci, contentItem, 0, filter, path \cup {contentItem})

\* the for loop of next(contentItem) from index i on
filterLoop(R, ci, contentItem, i, filter, path) ==
    IF R.err # NoError \/ ~(i < Len(ci[contentItem])) THEN R
    ELSE LET child == ci[contentItem][i + 1]
             R1 == [R EXCEPT !.trace = Append(@, Call("filter", child, "",
                                                     Null))]
             R2 == IF child \in filter
                   THEN [R1 EXCEPT !.result = Append(@, child)]
                   ELSE R1
         IN  filterLoop(filterNext(R2, ci, child, filter, path),
                        ci, contentItem, i + 1, filter, path)

\* getItemsByFilter testing the receiver as well
getItemsByFilter_withSelf(S, n, filter) ==
    LET R == [result |-> IF n \in filter THEN <<n>> ELSE <<>>,
              trace |-> <<Call("filter", n, "", Null)>>, err |-> NoError]
    IN  filterNext(R, S.contentItems, n, filter, {})

\* getItemsByFilter(filter) on node n
getItemsByFilter(S, n, filter) ==
    filterNext([result |-> <<>>, trace |-> <<>>, err |-> NoError],
               S.contentItems, n, filter, {})

(* ------------------------------ id subsystem -------------------------- *)
\* config.id is absent, a string or an array of strings
IdUndefined == [t |-> "undefined", s |-> "", a |-> <<>>]
IdString(str) == [t |-> "string", s |-> str, a |-> <<>>]
IdArray(arr) == [t |-> "array", s |-> "", a |-> arr]

\* !this.config.id: undefined and the empty string are falsy, arrays are not
Falsy(id) == id.t = "undefined" \/ (id.t = "string" /\ id.s = "")

\* hasId(id) on a node whose config.id is cid
hasId(cid, id) ==
    IF Falsy(cid) THEN FALSE
    ELSE IF cid.t = "string" THEN cid.s = id
    ELSE indexOf(id, cid.a) # -1

\* addId(id) on node n
addId(S, n, id) ==
    LET cid == S.config[n].id
    IN  IF hasId(cid, id) THEN S
        ELSE IF Falsy(cid) THEN [S EXCEPT !.config[n].id = IdString(id)]
        ELSE IF cid.t = "string"
        THEN [S EXCEPT !.config[n].id = IdArray(<<cid.s, id>>)]
        ELSE [S EXCEPT !.config[n].id = IdArray(Append(cid.a, id))]

\* removeId clearing the whole id whatever its form
removeId_clearAll(S, n, id) ==
    IF ~hasId(S.config[n].id, id) THEN Throw(S, IdNotFoundError)
    ELSE [S EXCEPT !.config[n].id = IdUndefined]

\* removeId without the presence check
removeId_noCheck(S, n, id) ==
    LET cid == S.config[n].id
    IN  IF cid.t = "string" THEN [S EXCEPT !.config[n].id = IdUndefined]
        ELSE IF cid.t = "array"
        THEN [S EXCEPT !.config[n].id =
                           IdArray(splice(cid.a, indexOf(id, cid.a), 1, <<>>))]
        ELSE S

\* removeId turning a sequence with one element left into that string
removeId_collapse(S, n, id) ==
    LET cid == S.config[n].id
        rest == splice(cid.a, indexOf(id, cid.a), 1, <<>>)
    IN  IF ~hasId(cid, id) THEN Throw(S, IdNotFoundError)
        ELSE IF cid.t = "string" THEN [S EXCEPT !.config[n].id = IdUndefined]
        ELSE IF Len(rest) = 1 THEN [S EXCEPT !.config[n].id = IdString(rest[1])]
        ELSE [S EXCEPT !.config[n].id = IdArray(rest)]

\* removeId(id) on node n
removeId(S, n, id) ==
    LET cid == S.config[n].id
    IN  IF ~hasId(cid, id) THEN Throw(S, IdNotFoundError)
        ELSE IF cid.t = "string" THEN [S EXCEPT !.config[n].id = IdUndefined]
        ELSE [S EXCEPT !.config[n].id =
                           IdArray(splice(cid.a, indexOf(id, cid.a), 1, <<>>))]

(* --------------------------- initial state ---------------------------- *)
\* The layout after construction from its configuration:
\*     root 0 -> [ row 1 -> [ stack 2 -> [ component 3 ] ] ]
\* and every further node constructed without a parent and never initialised.
InitContentItems ==
    [n \in Nodes |-> IF n <= 2 THEN <<n + 1>> ELSE <<>>]

InitParent ==
    [n \in Nodes |-> IF n \in 1 .. 3 THEN n - 1 ELSE Null]

InitConfig(closable1, ids) ==
    [n \in Nodes |->
        [content |-> InitContentItems[n],
         contentDefined |-> n <= 2,
         isClosable |-> IF n = 1 THEN closable1 ELSE TRUE,
         id |-> ids[n],
         title |-> ""]]

NoOp == [op |-> "", self |-> Null, arg |-> Null, arg2 |-> Null,
         index |-> Null, flag |-> FALSE, flag2 |-> FALSE, name |-> "",
         filter |-> {}, result |-> <<>>, err |-> NoError]

InitCommon ==
    /\ contentItems = InitContentItems
    /\ parent = InitParent
    /\ \E initialised \in BOOLEAN :
           isInitialised = [n \in Nodes |-> initialised /\ n <= 3]
    /\ pending = [n \in Nodes |-> {}]
    /\ frames = <<>>
    /\ destroyed = {}
    /\ trace = <<>>
    /\ last = NoOp
    /\ burst = [n \in Nodes |-> 0]
    /\ added = [n \in Nodes |-> {}]
    /\ steps = 0

Init ==
    /\ InitCommon
    /\ \E closable1 \in BOOLEAN :
           config = InitConfig(closable1, [n \in Nodes |-> IdUndefined])

(* ------------------------------ operations ---------------------------- *)
\* the heap S after an operation becomes the next state
Commit(S, l) ==
    /\ contentItems' = S.contentItems
    /\ parent' = S.parent
    /\ isInitialised' = S.isInitialised
    /\ config' = S.config
    /\ pending' = S.pending
    /\ frames' = S.frames
    /\ destroyed' = S.destroyed
    /\ trace' = S.trace
    /\ last' = [l EXCEPT !.err = S.err]

\* n is held in the children of some node
Held(n) == \E m \in Nodes : \E i \in 1 .. Len(contentItems[m]) :
               contentItems[m][i] = n

\* n is as its constructor left it, outside the initial layout
New(n) ==
    /\ InitParent[n] = Null /\ ~IsRoot(n)
    /\ parent[n] = Null /\ contentItems[n] = <<>> /\ ~Held(n)
    /\ ~isInitialised[n] /\ n \notin destroyed
    /\ ~config[n].contentDefined

\* new nodes are alike: callers take them in the order of their numbers
InUse ==
    LET new == {n \in Nodes : New(n)}
    IN  {n \in Nodes : n \in new => \A m \in new : n <= m}

\* the nodes a caller may hand to addChild / replaceChild as the new child:
\* constructed, not torn down, not the Root and not a child of any node at the
\* moment (a new node, or one taken out with keepChild or by a replacement);
\* a node is never handed to itself
Attachable ==
    {n \in InUse : ~Held(n) /\ n \notin destroyed /\ ~IsRoot(n)}

\* the nodes a caller invokes a mutation on
Receivers == InUse \ destroyed

Children(n) == {contentItems[n][i] : i \in 1 .. Len(contentItems[n])}

\* the nodes a caller names as the child to remove or to replace: the
\* children of the receiver, the nodes whose parent link is the receiver, and
\* one node that is neither
Named(self) ==
    LET own == Children(self) \cup {n \in Nodes : parent[n] = self}
        others == Nodes \ own
    IN  own \cup {n \in others : \A m \in others : n <= m}

AddChild(self, contentItem, index) ==
    /\ steps < MaxSteps
    /\ Commit(addChild(Heap, self, contentItem, index),
              [NoOp EXCEPT !.op = "addChild", !.self = self,
                           !.arg = contentItem, !.index = index])
    /\ steps' = steps + 1
    /\ UNCHANGED <<burst, added>>

RemoveChild(self, contentItem, keepChild) ==
    /\ steps < MaxSteps
    /\ Commit(removeChild(Heap, self, contentItem, keepChild),
              [NoOp EXCEPT !.op = "removeChild", !.self = self,
                           !.arg = contentItem, !.flag = keepChild])
    /\ steps' = steps + 1
    /\ UNCHANGED <<burst, added>>

ReplaceChild(self, oldChild, newChild, destroyOldChild, hasParentNode) ==
    /\ steps < MaxSteps
    /\ Commit(replaceChild(Heap, self, oldChild, newChild, destroyOldChild,
                           hasParentNode),
              [NoOp EXCEPT !.op = "replaceChild", !.self = self,
                           !.arg = oldChild, !.arg2 = newChild,
                           !.flag = destroyOldChild])
    /\ steps' = steps + 1
    /\ UNCHANGED <<burst, added>>

\* the operations, as long as the run has steps left
Next ==
    \/ /\ steps < MaxSteps
       /\ \E self \in Receivers :
          \E contentItem \in Attachable \ {self} :
          \E index \in (0 .. Len(contentItems[self])) \cup {undefined} :
              AddChild(self, contentItem, index)
    \/ /\ steps < MaxSteps
       /\ \E self \in Receivers :
          \E contentItem \in Named(self) :
          \E keepChild \in IF contentItem \in Children(self) THEN BOOLEAN
                                                              ELSE {FALSE} :
              RemoveChild(self, contentItem, keepChild)
    \/ /\ steps < MaxSteps
       /\ \E self \in Receivers :
          \E oldChild \in Named(self), newChild \in Attachable \ {self} :
          \E destroyOldChild \in IF oldChild \in Children(self) THEN BOOLEAN
                                                                  ELSE {TRUE} :
          \E hasParentNode \in IF oldChild \in Children(self) THEN BOOLEAN
                                                                ELSE {TRUE} :
              ReplaceChild(self, oldChild, newChild, destroyOldChild,
                           hasParentNode)

Spec == Init /\ [][Next]_vars

(* ---------------------- id operations on a node ----------------------- *)
\* the ids callers use; the empty string is the id of a resolved
\* configuration that names none (UserItemConfig.defaults.id)
Ids == {"", "a", "b"}

\* the nodes whose ids are exercised
IdNodes == {n \in Nodes : n <= 1}

InitId ==
    /\ InitCommon
    /\ \E ids \in [Nodes -> {IdUndefined, IdString("")}] :
           /\ \A n \in Nodes \ IdNodes : ids[n] = IdUndefined
           /\ config = InitConfig(TRUE, ids)

AddId(n, id) ==
    /\ Commit(addId(Heap, n, id),
              [NoOp EXCEPT !.op = "addId", !.self = n, !.name = id])
    /\ added' = [added EXCEPT ![n] = @ \cup {id}]
    /\ UNCHANGED <<burst, steps>>

RemoveId(n, id) ==
    /\ Commit(removeId(Heap, n, id),
              [NoOp EXCEPT !.op = "removeId", !.self = n, !.name = id])
    /\ added' = IF last'.err = NoError
                THEN [added EXCEPT ![n] = @ \ {id}]
                ELSE added
    /\ UNCHANGED <<burst, steps>>

NextId ==
    \/ \E n \in IdNodes, id \in Ids : AddId(n, id)
    \/ \E n \in IdNodes, id \in Ids : RemoveId(n, id)

SpecId == InitId /\ [][NextId]_vars

(* --------------------------- selection by id ------------------------- *)
\* the filter function of getItemsById(id) applied to an item whose
\* config.id is cid
idFilter(cid, id) ==
    IF cid.t = "array" THEN indexOf(id, cid.a) # -1
    ELSE cid.t = "string" /\ cid.s = id

\* getItemsById(id) on node n
getItemsById(S, n, id) ==
    getItemsByFilter(S, n, {d \in Nodes : idFilter(S.config[d].id, id)})

\* getItemsById(id) called on node n
GetItemsById(n, id) ==
    LET R == getItemsById(Heap, n, id)
    IN  /\ trace' = R.trace
        /\ last' = [NoOp EXCEPT !.op = "getItemsById", !.self = n,
                                !.name = id, !.result = R.result,
                                !.err = R.err]
        /\ UNCHANGED <<contentItems, parent, isInitialised, config, pending,
                       frames, destroyed, burst, added, steps>>

\* ids added and removed, and items selected by id
NextSelect ==
    \/ \E n \in IdNodes, id \in Ids : AddId(n, id)
    \/ \E n \in IdNodes, id \in Ids : RemoveId(n, id)
    \/ \E n \in Nodes, id \in Ids : GetItemsById(n, id)

SpecSelect == InitId /\ [][NextSelect]_vars

(* ------------------------ events on a fixed tree ---------------------- *)
\* the names emitted: the throttled one and one that is not
EventNames == {"stateChanged", "itemCreated"}

\* the node from which an event emitted on n reaches the layout manager when
\* nothing stops it: the root, or the first node without a parent
RECURSIVE TopOf(_)
TopOf(n) == IF IsRoot(n) \/ parent[n] = Null THEN n ELSE TopOf(parent[n])

\* n and all the nodes above it are initialised
RECURSIVE InInitialisedTree(_)
InInitialisedTree(n) ==
    /\ isInitialised[n]
    /\ IsRoot(n) \/ parent[n] = Null \/ InInitialisedTree(parent[n])

\* the tree holds the row under the root, or the row is the top of a subtree
\* of its own (created from a drag source); any part of it may be initialised
InitEvents ==
    /\ contentItems = InitContentItems
    /\ \E rowParent \in {RootNode, Null} :
           parent = [InitParent EXCEPT ![1] = rowParent]
    /\ \E initialised \in SUBSET {n \in Nodes : n <= 3} :
           isInitialised = [n \in Nodes |-> n \in initialised]
    /\ config = InitConfig(TRUE, [n \in Nodes |-> IdUndefined])
    /\ pending = [n \in Nodes |-> {}]
    /\ frames = <<>>
    /\ destroyed = {}
    /\ trace = <<>>
    /\ last = NoOp
    /\ burst = [n \in Nodes |-> 0]
    /\ added = [n \in Nodes |-> {}]
    /\ steps = 0

\* emitBubblingEvent(name) called on node n
EmitBubblingEvent(n, name) ==
    LET counted == name \in throttledEvents /\ InInitialisedTree(n)
    IN  /\ counted => burst[TopOf(n)] < MaxBurst
        /\ Commit(emitBubblingEvent(Heap, n, name),
                  [NoOp EXCEPT !.op = "emitBubblingEvent", !.self = n,
                               !.name = name])
        /\ burst' = IF counted THEN [burst EXCEPT ![TopOf(n)] = @ + 1]
                    ELSE burst
        /\ UNCHANGED <<added, steps>>

\* the browser runs the i-th callback handed to animFrame
AnimFrame(i) ==
    LET f == frames[i]
        S == [Heap EXCEPT !.frames = SubSeq(frames, 1, i - 1)
                                     \o SubSeq(frames, i + 1, Len(frames))]
    IN  /\ Commit(propagateEventToLayoutManager(S, f.node, f.name, f.origin),
                  [NoOp EXCEPT !.op = "animFrame", !.self = f.node,
                               !.name = f.name, !.index = burst[f.node]])
        /\ burst' = [burst EXCEPT ![f.node] = 0]
        /\ UNCHANGED <<added, steps>>

NextEvents ==
    \/ \E n \in Nodes, name \in EventNames : EmitBubblingEvent(n, name)
    \/ \E i \in 1 .. Len(frames) : AnimFrame(i)

SpecEvents == InitEvents /\ [][NextEvents]_vars

\* the browser runs every callback handed to animFrame: the callback of a node
\* stays scheduled until it runs
FairFlush ==
    \A t \in Nodes :
        WF_vars(\E i \in 1 .. Len(frames) : frames[i].node = t /\ AnimFrame(i))

SpecEventsFair == InitEvents /\ [][NextEvents]_vars /\ FairFlush

(* ----------------- events that are not forwarded ----------------------- *)
\* the titles callers set
Titles == {"t", "u"}

\* emitBubblingEvent(name) called on node n while a subscriber of node stopAt
\* (of no node when Null) stops the propagation of the events it is given
EmitBubblingEventStopped(n, name, stopAt) ==
    /\ Commit(emitBubblingEvent([Heap EXCEPT !.stopAt = stopAt], n, name),
              [NoOp EXCEPT !.op = "emitBubblingEvent", !.self = n,
                           !.name = name, !.arg = stopAt])
    /\ steps' = steps + 1
    /\ UNCHANGED <<burst, added>>

\* setTitle(title) called on node n
SetTitle(n, title) ==
    /\ Commit(setTitle(Heap, n, title),
              [NoOp EXCEPT !.op = "setTitle", !.self = n, !.name = title])
    /\ steps' = steps + 1
    /\ UNCHANGED <<burst, added>>

\* one call made on the layout
NextForward ==
    \/ /\ steps = 0
       /\ \E n \in Nodes, name \in EventNames, stopAt \in Nodes \cup {Null} :
              EmitBubblingEventStopped(n, name, stopAt)
    \/ /\ steps = 0
       /\ \E n \in Nodes, title \in Titles : SetTitle(n, title)

SpecForward == InitEvents /\ [][NextForward]_vars

(* ------------- one operation on a constructed layout ----------------- *)
\* the elements of a set of nodes in the order of their numbers, or reversed
RECURSIVE SeqOfSet(_, _)
SeqOfSet(set, reversed) ==
    IF set = {} THEN <<>>
    ELSE LET x == CHOOSE x \in set :
                      \A y \in set : IF reversed THEN y <= x ELSE x <= y
         IN  <<x>> \o SeqOfSet(set \ {x}, reversed)

\* node n is the root or below it by the parent links p
RECURSIVE UnderRoot(_, _)
UnderRoot(p, n) == IsRoot(n) \/ (p[n] # Null /\ UnderRoot(p, p[n]))

\* the filter functions handed to getItemsByFilter, as the sets of nodes on
\* which they return true
Filters == {Nodes, {n \in Nodes : n % 2 = 0}, {n \in Nodes : n % 2 = 1}}

\* the items a configuration constructs: every node but the root is
\* constructed under an earlier node or without a parent; the layout below the
\* root is initialised or not
InitWalk ==
    \E p \in [Nodes -> Nodes \cup {Null}] :
    \E reversed \in BOOLEAN, initialised \in BOOLEAN, closable1 \in BOOLEAN :
        /\ \A n \in Nodes : p[n] = Null \/ p[n] < n
        /\ parent = p
        /\ contentItems =
               [n \in Nodes |-> SeqOfSet({m \in Nodes : p[m] = n}, reversed)]
        /\ isInitialised = [n \in Nodes |-> initialised /\ UnderRoot(p, n)]
        /\ config =
               [n \in Nodes |->
                   [content |-> SeqOfSet({m \in Nodes : p[m] = n}, reversed),
                    contentDefined |-> IsRoot(n) \/ \E m \in Nodes : p[m] = n,
                    isClosable |-> IF n = 1 THEN closable1 ELSE TRUE,
                    id |-> IdUndefined,
                    title |-> ""]]
        /\ pending = [n \in Nodes |-> {}]
        /\ frames = <<>>
        /\ destroyed = {}
        /\ trace = <<>>
        /\ last = NoOp
        /\ burst = [n \in Nodes |-> 0]
        /\ added = [n \in Nodes |-> {}]
        /\ steps = 0

\* callDownwards(functionName, [], bottomUp, skipSelf) called on node n
CallDownwards(n, functionName, bottomUp, skipSelf) ==
    /\ Commit(callDownwards(Heap, n, functionName, bottomUp, skipSelf, {}),
              [NoOp EXCEPT !.op = "callDownwards", !.self = n,
                           !.name = functionName, !.flag = bottomUp,
                           !.flag2 = skipSelf])
    /\ steps' = steps + 1
    /\ UNCHANGED <<burst, added>>

\* getItemsByFilter(filter) called on node n
GetItemsByFilter(n, filter) ==
    LET R == getItemsByFilter(Heap, n, filter)
    IN  /\ trace' = R.trace
        /\ last' = [NoOp EXCEPT !.op = "getItemsByFilter", !.self = n,
                                !.filter = filter, !.result = R.result,
                                !.err = R.err]
        /\ steps' = steps + 1
        /\ UNCHANGED <<contentItems, parent, isInitialised, config, pending,
                       frames, destroyed, burst, added>>

\* remove() called on node n
Remove(n) ==
    /\ Commit(remove(Heap, n), [NoOp EXCEPT !.op = "remove", !.self = n])
    /\ steps' = steps + 1
    /\ UNCHANGED <<burst, added>>

\* one call made on the constructed items
NextWalk ==
    \/ /\ steps = 0
       /\ \E n \in Nodes, functionName \in {"setSize", "_$destroy"} :
          \E bottomUp \in BOOLEAN, skipSelf \in BOOLEAN :
              CallDownwards(n, functionName, bottomUp, skipSelf)
    \/ /\ steps = 0
       /\ \E n \in Nodes, filter \in Filters : GetItemsByFilter(n, filter)
    \/ /\ steps = 0
       /\ \E self \in Nodes :
          \E contentItem \in Named(self), keepChild \in BOOLEAN :
              RemoveChild(self, contentItem, keepChild)
    \/ /\ steps = 0
       /\ \E n \in Nodes : Remove(n)

SpecWalk == InitWalk /\ [][NextWalk]_vars

(* ------------- one attachment on a constructed layout ---------------- *)
\* one addChild or replaceChild call made on the constructed items, the node
\* handed over being the top of a subtree that is held by no node
NextAttach ==
    \/ /\ steps = 0
       /\ \E self \in Nodes :
          \E contentItem \in Attachable \ {self} :
          \E index \in (0 .. Len(contentItems[self])) \cup {undefined} :
              AddChild(self, contentItem, index)
    \/ /\ steps = 0
       /\ \E self \in Nodes :
          \E oldChild \in Children(self), newChild \in Attachable \ {self} :
          \E destroyOldChild \in BOOLEAN :
              ReplaceChild(self, oldChild, newChild, destroyOldChild, TRUE)

SpecAttach == InitWalk /\ [][NextAttach]_vars

(* --------------------------- area of an item -------------------------- *)
\* an element laid out at (left, top) with a width and a height; NoElement is
\* the value of an element that was never assigned, or of an omitted argument
Element(left, top, width, height) ==
    [defined |-> TRUE, left |-> left, top |-> top, width |-> width,
     height |-> height]

NoElement == [defined |-> FALSE, left |-> 0, top |-> 0, width |-> 0,
              height |-> 0]

\* the offsets and the lengths of the elements measured
Offsets == {-1, 0, 4}
Lengths == {0, 2, 3}

Elements == {Element(l, t, w, h) : l \in Offsets, t \in Offsets,
                                   w \in Lengths, h \in Lengths}

\* getJQueryOffset(element) and getJQueryWidthAndHeight(element)
getJQueryOffset(element) == [left |-> element.left, top |-> element.top]

getJQueryWidthAndHeight(element) ==
    [width |-> element.width, height |-> element.height]

\* _$getArea(element) on node n whose own element is own: the area returned
\* and the error thrown; measuring an element that is not there reads a
\* property of undefined
_getArea(n, element, own) ==
    LET el == IF element.defined THEN element ELSE own
        offset == getJQueryOffset(el)
        widthAndHeight == getJQueryWidthAndHeight(el)
    IN  IF ~el.defined THEN [returned |-> FALSE, err |-> TypeError]
        ELSE [returned |-> TRUE, err |-> NoError, isNull |-> FALSE,
              x1 |-> offset.left,
              y1 |-> offset.top,
              x2 |-> offset.left + widthAndHeight.width,
              y2 |-> offset.top + widthAndHeight.height,
              surface |-> widthAndHeight.width * widthAndHeight.height,
              contentItem |-> n]

\* _$getArea(element) called on node n
GetArea(n, element, own) ==
    /\ last' = [NoOp EXCEPT !.op = "_$getArea", !.self = n,
                            !.result = <<element, own, _getArea(n, element, own)>>,
                            !.err = _getArea(n, element, own).err]
    /\ steps' = steps + 1
    /\ UNCHANGED <<contentItems, parent, isInitialised, config, pending,
                   frames, destroyed, trace, burst, added>>

\* one call made on the layout
NextArea ==
    /\ steps = 0
    /\ \E n \in Nodes :
       \E element \in Elements \cup {NoElement} :
       \E own \in Elements \cup {NoElement} :
           GetArea(n, element, own)

SpecArea == Init /\ [][NextArea]_vars

(* ---------------------- resolution of defaults ------------------------ *)
\* an optional property of a user configuration: absent, or given a value
Absent == [defined |-> FALSE]
Given(v) == [defined |-> TRUE, v |-> v]

\* user.key ?? default
Coalesce(o, default) == IF o.defined THEN o.v ELSE default

\* UserItemConfig.defaults
defaults ==
    [type |-> "stack", content |-> <<>>, width |-> 50, height |-> 50,
     id |-> "", isClosable |-> TRUE, reorderEnabled |-> TRUE, title |-> "",
     activeItemIndex |-> -1]

\* ReactComponentConfig.REACT_COMPONENT_ID
REACT_COMPONENT_ID == "REACT_COMPONENT_ID"

\* the default of componentState, the empty object
EmptyObject == "{}"

UnreachableTypeError == "UserItemConfig.resolveDefaults: Unreachable Type"
JsonNameError == "UserJsonComponentConfig.componentName is undefined"
ReactNameError == "UserReactComponentConfig.componentName is undefined"

\* the outcome of a call: an error thrown, or a value returned
Thrown(msg) == [err |-> msg, returned |-> FALSE, v |-> <<>>]
Returned(v) == [err |-> NoError, returned |-> TRUE, v |-> v]

RECURSIVE resolveDefaults(_)
RECURSIVE resolveContentLoop(_, _, _)

\* the for loop of resolveContentDefaults from index i on
resolveContentLoop(content, i, result) ==
    IF ~(i < Len(content)) THEN Returned(result)
    ELSE LET r == resolveDefaults(content[i + 1])
         IN  IF ~r.returned THEN Thrown(r.err)
             ELSE resolveContentLoop(content, i + 1, Append(result, r.v))

\* UserItemConfig.resolveContentDefaults(content)
resolveContentDefaults(content) ==
    IF ~content.defined THEN Returned(<<>>)
    ELSE resolveContentLoop(content.v, 0, <<>>)

\* the json component resolved without looking at componentName
UserJsonComponentConfig_resolveDefaults_noCheck(user) ==
    LET content == resolveContentDefaults(user.content)
    IN  IF ~content.returned THEN Thrown(content.err)
        ELSE Returned(
            [type |-> user.type,
             content |-> content.v,
             width |-> Coalesce(user.width, defaults.width),
             height |-> Coalesce(user.height, defaults.height),
             id |-> Coalesce(user.id, defaults.id),
             isClosable |-> Coalesce(user.isClosable, defaults.isClosable),
             reorderEnabled |-> Coalesce(user.reorderEnabled,
                                         defaults.reorderEnabled),
             title |-> Coalesce(user.title, defaults.title),
             activeItemIndex |-> Coalesce(user.activeItemIndex,
                                          defaults.activeItemIndex),
             componentName |-> Coalesce(user.componentName, ""),
             componentState |-> Coalesce(user.componentState, EmptyObject)])

\* the json component resolved with the title of a container
UserJsonComponentConfig_resolveDefaults_plainTitle(user) ==
    IF ~user.componentName.defined THEN Thrown(JsonNameError)
    ELSE LET content == resolveContentDefaults(user.content)
         IN  IF ~content.returned THEN Thrown(content.err)
             ELSE Returned(
                 [type |-> user.type,
                  content |-> content.v,
                  width |-> Coalesce(user.width, defaults.width),
                  height |-> Coalesce(user.height, defaults.height),
                  id |-> Coalesce(user.id, defaults.id),
                  isClosable |-> Coalesce(user.isClosable,
                                          defaults.isClosable),
                  reorderEnabled |-> Coalesce(user.reorderEnabled,
                                              defaults.reorderEnabled),
                  title |-> Coalesce(user.title, defaults.title),
                  activeItemIndex |-> Coalesce(user.activeItemIndex,
                                               defaults.activeItemIndex),
                  componentName |-> user.componentName.v,
                  componentState |-> Coalesce(user.componentState,
                                              EmptyObject)])

\* UserJsonComponentConfig.resolveDefaults(user)
UserJsonComponentConfig_resolveDefaults(user) ==
    IF ~user.componentName.defined THEN Thrown(JsonNameError)
    ELSE LET content == resolveContentDefaults(user.content)
         IN  IF ~content.returned THEN Thrown(content.err)
             ELSE Returned(
                 [type |-> user.type,
                  content |-> content.v,
                  width |-> Coalesce(user.width, defaults.width),
                  height |-> Coalesce(user.height, defaults.height),
                  id |-> Coalesce(user.id, defaults.id),
                  isClosable |-> Coalesce(user.isClosable,
                                          defaults.isClosable),
                  reorderEnabled |-> Coalesce(user.reorderEnabled,
                                              defaults.reorderEnabled),
                  title |-> Coalesce(user.title, user.componentName.v),
                  activeItemIndex |-> Coalesce(user.activeItemIndex,
                                               defaults.activeItemIndex),
                  componentName |-> user.componentName.v,
                  componentState |-> Coalesce(user.componentState,
                                              EmptyObject)])

\* UserReactComponentConfig.resolveDefaults(user)
UserReactComponentConfig_resolveDefaults(user) ==
    IF ~user.componentName.defined THEN Thrown(ReactNameError)
    ELSE LET content == resolveContentDefaults(user.content)
         IN  IF ~content.returned THEN Thrown(content.err)
             ELSE Returned(
                 [type |-> "react-component",
                  content |-> content.v,
                  width |-> Coalesce(user.width, defaults.width),
                  height |-> Coalesce(user.height, defaults.height),
                  id |-> Coalesce(user.id, defaults.id),
                  isClosable |-> Coalesce(user.isClosable,
                                          defaults.isClosable),
                  reorderEnabled |-> Coalesce(user.reorderEnabled,
                                              defaults.reorderEnabled),
                  title |-> Coalesce(user.title, user.componentName.v),
                  activeItemIndex |-> Coalesce(user.activeItemIndex,
                                               defaults.activeItemIndex),
                  componentName |-> REACT_COMPONENT_ID,
                  props |-> user.props])

\* UserItemConfig.resolveDefaults(user)
resolveDefaults(user) ==
    IF user.type \in {"root", "row", "column", "stack"}
    THEN LET content == resolveContentDefaults(user.content)
         IN  IF ~content.returned THEN Thrown(content.err)
             ELSE Returned(
                 [type |-> user.type,
                  content |-> content.v,
                  width |-> Coalesce(user.width, defaults.width),
                  height |-> Coalesce(user.height, defaults.height),
                  id |-> Coalesce(user.id, defaults.id),
                  isClosable |-> Coalesce(user.isClosable,
                                          defaults.isClosable),
                  reorderEnabled |-> Coalesce(user.reorderEnabled,
                                              defaults.reorderEnabled),
                  title |-> Coalesce(user.title, defaults.title),
                  activeItemIndex |-> Coalesce(user.activeItemIndex,
                                               defaults.activeItemIndex)])
    ELSE IF user.type = "component"
    THEN UserJsonComponentConfig_resolveDefaults(user)
    ELSE IF user.type = "react-component"
    THEN UserReactComponentConfig_resolveDefaults(user)
    ELSE Thrown(UnreachableTypeError)

(* ------------------ user configurations resolved --------------------- *)
\* the optional properties of an item every kind resolves
ItemKeys == {"width", "height", "id", "isClosable", "reorderEnabled",
             "title", "activeItemIndex"}

\* the optional properties of a user configuration
OptionalKeys == ItemKeys \cup {"componentState", "props"}

\* the values a user supplies: the falsy ones, or others that are no defaults
Supplied(falsy) ==
    IF falsy
    THEN [width |-> 0, height |-> 0, id |-> "", isClosable |-> FALSE,
          reorderEnabled |-> FALSE, title |-> "", activeItemIndex |-> 0,
          componentState |-> "", props |-> ""]
    ELSE [width |-> 25, height |-> 75, id |-> "x", isClosable |-> FALSE,
          reorderEnabled |-> FALSE, title |-> "T", activeItemIndex |-> 1,
          componentState |-> "state", props |-> "props"]

\* the sets of properties a user supplies: none, all, or a single one
Givens == {{}, OptionalKeys} \cup {{k} : k \in OptionalKeys}

\* the types found in a user configuration, one of them no item type
UserTypes == {"root", "row", "column", "stack", "component",
              "react-component", "unknown"}

\* a user configuration of an item
UserItem(type, named, given, falsy, content) ==
    [k \in OptionalKeys |->
        IF k \in given THEN Given(Supplied(falsy)[k]) ELSE Absent]
    @@ [type |-> type,
        componentName |-> IF named THEN Given("name") ELSE Absent,
        content |-> content]

\* the user configuration of node n of the tree given by the parent links p:
\* a leaf is a named component, a node with children a container; node
\* special is of the given type, named or not, and supplies the given
\* properties
RECURSIVE UserTree(_, _, _, _, _, _, _)
UserTree(p, n, special, type, named, given, falsy) ==
    LET kids == SeqOfSet({m \in Nodes : p[m] = n}, FALSE)
        content ==
            IF kids = <<>>
            THEN IF n % 2 = 0 THEN Given(<<>>) ELSE Absent
            ELSE Given([i \in 1 .. Len(kids) |->
                           UserTree(p, kids[i], special, type, named, given,
                                    falsy)])
    IN  IF n = special THEN UserItem(type, named, given, falsy, content)
        ELSE IF kids = <<>>
        THEN UserItem("component", TRUE, {}, falsy, content)
        ELSE UserItem(IF IsRoot(n) THEN "root"
                      ELSE IF n % 2 = 1 THEN "row" ELSE "stack",
                      FALSE, {}, falsy, content)

\* the layout before any call
InitResolve ==
    /\ InitCommon
    /\ ~isInitialised[RootNode]
    /\ config = InitConfig(TRUE, [n \in Nodes |-> IdUndefined])

\* UserItemConfig.resolveDefaults(user) called
ResolveDefaults(user) ==
    /\ last' = [NoOp EXCEPT !.op = "resolveDefaults",
                            !.result = <<user, resolveDefaults(user)>>,
                            !.err = resolveDefaults(user).err]
    /\ steps' = steps + 1
    /\ UNCHANGED <<contentItems, parent, isInitialised, config, pending,
                   frames, destroyed, trace, burst, added>>

\* one call, on a user configuration shaped as a tree over all the nodes
NextResolve ==
    /\ steps = 0
    /\ \E p \in [Nodes -> Nodes \cup {Null}] :
           /\ \A n \in Nodes : IF IsRoot(n) THEN p[n] = Null
                                ELSE p[n] # Null /\ p[n] < n
           /\ \E special \in Nodes, type \in UserTypes, named \in BOOLEAN :
              \E given \in Givens, falsy \in BOOLEAN :
                  ResolveDefaults(UserTree(p, RootNode, special, type, named,
                                           given, falsy))

SpecResolve == InitResolve /\ [][NextResolve]_vars

(* ------------------------- structure of the tree ---------------------- *)
\* the nodes reachable from the nodes of set by children links
RECURSIVE DownClosure(_)
DownClosure(set) ==
    LET next == set \cup UNION {Children(m) : m \in set}
    IN  IF next = set THEN set ELSE DownClosure(next)

Descendants(n) == DownClosure(Children(n))

\* the nodes reachable from the nodes of set by parent links
RECURSIVE UpClosure(_)
UpClosure(set) ==
    LET next == set \cup {parent[m] : m \in {k \in set : parent[k] # Null}}
    IN  IF next = set THEN set ELSE UpClosure(next)

Ancestors(n) == IF parent[n] = Null THEN {} ELSE UpClosure({parent[n]})

\* the places <<m, i>> at which node c is held as a child
Places(c) == {p \in Nodes \X (1 .. NumNodes) :
                  p[2] <= Len(contentItems[p[1]])
                  /\ contentItems[p[1]][p[2]] = c}

(* ------------------------------- claims ------------------------------- *)

\* C1: after any sequence of addChild / removeChild / replaceChild, every
\* node's config.content and contentItems have the same length and, at every
\* index, config.content holds the config of the child at that index (the
\* config of node c is written c).
C1_ContentParallelToChildren ==
    \A n \in Nodes :
        /\ Len(config[n].content) = Len(contentItems[n])
        /\ \A i \in 1 .. Len(contentItems[n]) :
               i <= Len(config[n].content)
               /\ config[n].content[i] = contentItems[n][i]

\* C2: after any sequence of addChild / removeChild / replaceChild, every
\* child's parent is the node holding it, and every node with a non-null
\* parent is held exactly once, by exactly one node, its parent.
C2_ParentLinksAgree ==
    /\ \A n \in Nodes : \A c \in Children(n) : parent[c] = n
    /\ \A c \in Nodes :
           parent[c] # Null =>
               /\ Cardinality(Places(c)) = 1
               /\ \A p \in Places(c) : p[1] = parent[c]

\* C3: after any sequence of addChild / removeChild / replaceChild, no node
\* is reachable from itself by children links or by parent links.
C3_Acyclic ==
    \A n \in Nodes : n \notin Descendants(n) /\ n \notin Ancestors(n)

\* C4: removeChild(x) on a receiver whose children do not contain x throws
\* the unknown-child error, invokes nothing (no _$destroy, no event, no
\* resize) and leaves every field of every node as it was.
C4_RemoveUnknownChildNoEffect ==
    [][(last'.op = "removeChild"
        /\ last'.arg \notin Children(last'.self))
       => /\ last'.err = UnknownChildError
          /\ trace' = <<>>
          /\ UNCHANGED <<contentItems, config, parent, isInitialised,
                         destroyed, pending, frames>>]_vars

C4_Witness ==
    /\ last.op = "removeChild"
    /\ last.err = UnknownChildError
    /\ last.arg \notin Children(last.self)
    /\ parent[last.arg] = last.self
    /\ steps = 2

\* C5: replaceChild(oldChild, newChild) on a receiver whose children do not
\* contain oldChild throws before any mutation: children, config.content and
\* every parent link are as before, and no _$destroy, _$init, setSize or
\* hook has been invoked.
C5_ReplaceUnknownChildNoEffect ==
    [][(last'.op = "replaceChild"
        /\ last'.arg \notin Children(last'.self))
       => /\ last'.err = NotChildError
          /\ trace' = <<>>
          /\ UNCHANGED <<contentItems, config, parent, isInitialised,
                         destroyed, pending, frames>>]_vars

C5_Witness ==
    /\ last.op = "replaceChild"
    /\ last.err = NotChildError
    /\ last.flag
    /\ last.arg \notin Children(last.self)
    /\ parent[last.arg] = last.self
    /\ parent[last.arg2] # last.self

\* the nodes the cascade takes out of their parents when child gone has left
\* n: n itself and the nodes above it, as long as they are emptied, closable
\* and not the root
RECURSIVE CascadeChain(_, _, _)
CascadeChain(n, gone, fuel) ==
    IF fuel = 0 \/ IsRoot(n) \/ ~config[n].isClosable
       \/ Children(n) \ {gone} # {} \/ parent[n] = Null
    THEN {}
    ELSE {n} \cup CascadeChain(parent[n], n, fuel - 1)

\* the node at which the cascade stops
RECURSIVE CascadeStop(_, _, _)
CascadeStop(n, gone, fuel) ==
    IF fuel = 0 \/ IsRoot(n) \/ ~config[n].isClosable
       \/ Children(n) \ {gone} # {} \/ parent[n] = Null
    THEN n
    ELSE CascadeStop(parent[n], n, fuel - 1)

Holders(ci, c) == {p \in Nodes : \E i \in 1 .. Len(ci[p]) : ci[p][i] = c}

\* C6: when a removeChild that returns normally removes the last child of a
\* closable receiver that is not the root, the receiver and every emptied
\* closable non-root node above it leave their parents, and the first node
\* above that is the root, not closable or not emptied stays where it was and
\* loses only the child the cascade came from.
C6_CascadeUpToStop ==
    [][(/\ last'.op = "removeChild"
        /\ last'.err = NoError
        /\ contentItems[last'.self] = <<last'.arg>>
        /\ ~IsRoot(last'.self)
        /\ config[last'.self].isClosable)
       => LET chain == CascadeChain(last'.self, last'.arg, NumNodes)
              stop == CascadeStop(last'.self, last'.arg, NumNodes)
          IN  /\ last'.self \in chain
              /\ stop \notin chain
              /\ \A m \in chain : Holders(contentItems', m) = {}
              /\ Holders(contentItems', stop) = Holders(contentItems, stop)
              /\ contentItems'[stop] =
                     SelectSeq(contentItems[stop],
                               LAMBDA c : c \notin chain \cup {last'.arg})
              /\ IsRoot(stop) \/ ~config[stop].isClosable
                 \/ contentItems'[stop] # <<>>]_vars

\* the same for receivers of structures without a cycle (the statement of
\* C6 restricted to the states in which C3 holds)
CascadeOnAcyclic ==
    [][(/\ C3_Acyclic
        /\ last'.op = "removeChild"
        /\ last'.err = NoError
        /\ contentItems[last'.self] = <<last'.arg>>
        /\ ~IsRoot(last'.self)
        /\ config[last'.self].isClosable)
       => LET chain == CascadeChain(last'.self, last'.arg, NumNodes)
              stop == CascadeStop(last'.self, last'.arg, NumNodes)
          IN  /\ last'.self \in chain
              /\ stop \notin chain
              /\ \A m \in chain : Holders(contentItems', m) = {}
              /\ Holders(contentItems', stop) = Holders(contentItems, stop)
              /\ contentItems'[stop] =
                     SelectSeq(contentItems[stop],
                               LAMBDA c : c \notin chain \cup {last'.arg})
              /\ IsRoot(stop) \/ ~config[stop].isClosable
                 \/ contentItems'[stop] # <<>>]_vars

\* the cascade has gone through two levels and stopped at the emptied root
C6_Witness ==
    /\ last.op = "removeChild"
    /\ last.err = NoError
    /\ last.self = 2
    /\ last.arg = 3
    /\ contentItems[1] = <<>>
    /\ contentItems[RootNode] = <<>>
    /\ steps = 1

\* C7: addChild(n, i) with 0 <= i <= length leaves n at index i of the
\* children and of config.content, the earlier entries where they were and
\* the later ones one place further; with the index omitted n is the last
\* entry of both; n.parent is the receiver.
C7_AddChildPlacesAtIndex ==
    [][last'.op = "addChild"
       => LET r == last'.self
              n == last'.arg
              len == Len(contentItems[r])
              i == IF last'.index = undefined THEN len ELSE last'.index
          IN  /\ Len(contentItems'[r]) = len + 1
              /\ Len(config'[r].content) = Len(config[r].content) + 1
              /\ contentItems'[r][i + 1] = n
              /\ config'[r].content[i + 1] = n
              /\ \A j \in 1 .. i :
                     /\ contentItems'[r][j] = contentItems[r][j]
                     /\ config'[r].content[j] = config[r].content[j]
              /\ \A j \in (i + 1) .. len :
                     /\ contentItems'[r][j + 1] = contentItems[r][j]
                     /\ config'[r].content[j + 1] = config[r].content[j]
              /\ parent'[n] = r]_vars

\* a node inserted in front of an existing child
C7_Witness ==
    /\ last.op = "addChild"
    /\ last.index = 0
    /\ Len(contentItems[last.self]) = 2
    /\ contentItems[last.self][1] = last.arg
    /\ config[last.self].content[1] = last.arg
    /\ parent[last.arg] = last.self

\* C8 as stated: on a node that starts without an id, hasId(s) is true
\* exactly for the strings s added and not removed since.
C8_HasIdIffAdded ==
    \A n \in IdNodes : \A s \in Ids :
        hasId(config[n].id, s) <=> s \in added[n]

\* C8 amended: on a node that starts without an id, hasId(s) is true exactly
\* for the non-empty strings s added and not removed since.
C8_HasIdIffAddedNonEmpty ==
    \A n \in IdNodes : \A s \in Ids \ {""} :
        hasId(config[n].id, s) <=> s \in added[n]

\* "a" and "b" were added, "a" has been removed: only "b" is present
C8_Witness ==
    /\ last.op = "removeId"
    /\ last.name = "a"
    /\ last.err = NoError
    /\ added[last.self] = {"b"}
    /\ hasId(config[last.self].id, "b")
    /\ ~hasId(config[last.self].id, "a")

\* C9: removeId(x) on a node for which hasId(x) is false throws
\* "Id not found" and leaves config.id as it was.
C9_RemoveAbsentIdThrows ==
    [][(last'.op = "removeId"
        /\ ~hasId(config[last'.self].id, last'.name))
       => /\ last'.err = IdNotFoundError
          /\ config' = config]_vars

\* removeId of a string that a non-empty sequence id does not contain
C9_Witness ==
    /\ last.op = "removeId"
    /\ last.err = IdNotFoundError
    /\ config[last.self].id.t = "array"
    /\ config[last.self].id.a # <<>>
    /\ indexOf(last.name, config[last.self].id.a) = -1

\* the deliveries of name made to the layout manager by the last operation
Deliveries(name) ==
    {i \in 1 .. Len(trace) : trace[i].call = "layoutManager.emit"
                             /\ trace[i].name = name}

\* the flushes scheduled by node t and not yet run
Outstanding(t) == {i \in 1 .. Len(frames) : frames[i].node = t}

\* C10: stateChanged emitted N > 1 times in an initialised tree before the
\* scheduled flush runs reaches the layout manager exactly once: no emit
\* delivers it at once, one flush is outstanding while the burst lasts, and
\* the flush delivers it once and leaves none outstanding.
C10_BurstDeliveredOnce ==
    /\ (last.op = "emitBubblingEvent" /\ last.name = "stateChanged")
           => Deliveries("stateChanged") = {}
    /\ \A t \in Nodes : burst[t] > 0 => Cardinality(Outstanding(t)) = 1
    /\ (last.op = "animFrame" /\ last.name = "stateChanged" /\ last.index > 1)
           => /\ Cardinality(Deliveries("stateChanged")) = 1
              /\ Outstanding(last.self) = {}

\* a flush at the root after a burst of more than one stateChanged
C10_Witness ==
    /\ last.op = "animFrame"
    /\ last.self = RootNode
    /\ last.index > 1
    /\ Cardinality(Deliveries("stateChanged")) = 1

\* the nodes an event emitted on n passes through when nothing stops it: n,
\* its parent, ... up to the root or the first node without a parent
RECURSIVE ChainUp(_)
ChainUp(n) == IF IsRoot(n) \/ parent[n] = Null THEN <<n>>
              ELSE <<n>> \o ChainUp(parent[n])

\* C11: every emitBubblingEvent of a name outside the throttled set on a node
\* of an initialised tree makes exactly one delivery to the layout manager,
\* of that name and that origin, as the last thing the call does; it leaves
\* nothing to a later flush, and no flush ever delivers such a name.  Hence N
\* emits make N deliveries, in the order of the calls.
C11_ImmediateDeliveredPerCall ==
    [][/\ (/\ last'.op = "emitBubblingEvent"
           /\ last'.name \notin throttledEvents
           /\ InInitialisedTree(last'.self))
          => /\ last'.err = NoError
             /\ {i \in 1 .. Len(trace') :
                     trace'[i].call = "layoutManager.emit"} = {Len(trace')}
             /\ trace'[Len(trace')] =
                    Call("layoutManager.emit", last'.self, last'.name, Null)
             /\ frames' = frames
             /\ pending' = pending
       /\ \A i \in 1 .. Len(frames') : frames'[i].name \in throttledEvents
       /\ last'.op = "animFrame" => last'.name \in throttledEvents]_vars

\* itemCreated emitted on the component reaches the layout manager at once
\* while a flush of stateChanged is still outstanding
C11_Witness ==
    /\ last.op = "emitBubblingEvent"
    /\ last.name = "itemCreated"
    /\ last.self = 3
    /\ parent[1] = RootNode
    /\ Len(frames) = 1
    /\ burst[RootNode] > 1
    /\ trace[Len(trace)] = Call("layoutManager.emit", 3, "itemCreated", Null)


\* the nodes of the sequence seq and below them, each node before the nodes
\* below it and the nodes of seq in their order; depth bounds the descent
RECURSIVE PreOrder(_, _)
PreOrder(seq, depth) ==
    IF seq = <<>> \/ depth = 0 THEN <<>>
    ELSE <<Head(seq)>> \o PreOrder(contentItems[Head(seq)], depth - 1)
                       \o PreOrder(Tail(seq), depth)

\* the calls of the last operation named call, as the sequence of their nodes
CalledOn(call) ==
    LET idx == SelectSeq([i \in 1 .. Len(trace) |-> i],
                         LAMBDA i : trace[i].call = call)
    IN  [k \in 1 .. Len(idx) |-> trace[idx[k]].node]

\* C12: getItemsByFilter(p) tests exactly the proper descendants of the
\* receiver, each once and in pre-order, and returns those of them for which
\* p holds, in that order; the receiver is neither tested nor returned.
C12_FilterPreOrderProperDescendants ==
    last.op = "getItemsByFilter"
        => LET pre == PreOrder(contentItems[last.self], NumNodes)
           IN  /\ last.err = NoError
               /\ CalledOn("filter") = pre
               /\ last.result = SelectSeq(pre, LAMBDA d : d \in last.filter)
               /\ {pre[i] : i \in 1 .. Len(pre)} = Descendants(last.self)
               /\ Len(pre) = Cardinality(Descendants(last.self))
               /\ \A i \in 1 .. Len(last.result) :
                      last.result[i] # last.self

\* a receiver for which the filter holds, with two children and a grandchild
\* below the first of them: all three are returned, the receiver is not
C12_Witness ==
    /\ last.op = "getItemsByFilter"
    /\ last.filter = Nodes
    /\ Len(contentItems[last.self]) = 2
    /\ Len(last.result) = 3
    /\ last.result[1] = contentItems[last.self][1]
    /\ last.result[2] \in Children(last.result[1])
    /\ last.result[3] = contentItems[last.self][2]


\* C13: callDownwards(f, args, bottomUp, skipSelf) with skipSelf false
\* invokes f exactly once on every node of the subtree of the receiver and on
\* no other node; top-down, a node comes before its descendants and children
\* are visited in children order; bottom-up, a node comes after all of its
\* descendants.
C13_WalkOncePerNode ==
    (last.op = "callDownwards" /\ ~last.flag2 /\ last.err = NoError)
        => LET calls == CalledOn(last.name)
               subtree == {last.self} \cup Descendants(last.self)
           IN  /\ \A i \in 1 .. Len(calls) : calls[i] \in subtree
               /\ \A m \in subtree :
                      Cardinality({i \in 1 .. Len(calls) : calls[i] = m}) = 1
               /\ ~last.flag
                      => calls = <<last.self>>
                                 \o PreOrder(contentItems[last.self], NumNodes)
               /\ last.flag
                      => \A i, j \in 1 .. Len(calls) :
                             calls[j] \in Descendants(calls[i]) => j < i


\* C14 as stated: removeChild(c) with keepChild false invokes _$destroy
\* exactly once on every node of the subtree of c, first on c and then on the
\* proper descendants of c bottom-up; with keepChild true it invokes _$destroy
\* on no node at all.
C14_TeardownOncePerSubtreeNode ==
    (last.op = "removeChild" /\ last.err # UnknownChildError)
        => LET c == last.arg
               calls == CalledOn("_$destroy")
               subtree == {c} \cup Descendants(c)
           IN  IF last.flag
               THEN calls = <<>>
               ELSE /\ \A m \in subtree :
                           Cardinality({i \in 1 .. Len(calls) :
                                            calls[i] = m}) = 1
                    /\ calls[1] = c
                    /\ \A i, j \in 1 .. Len(calls) :
                           (calls[i] \in Descendants(c)
                            /\ calls[j] \in Descendants(calls[i])) => j < i

\* C14 amended: removeChild(c) with keepChild false invokes _$destroy exactly
\* once on every node of the subtree of c, first on c and then on the proper
\* descendants of c bottom-up; with keepChild true it invokes _$destroy on no
\* node of the subtree of c: only on the emptied receiver and the emptied
\* nodes above it that the cascade removes.
C14_TeardownOncePerSubtreeNodeKeptUntouched ==
    (last.op = "removeChild" /\ last.err # UnknownChildError)
        => LET c == last.arg
               calls == CalledOn("_$destroy")
               subtree == {c} \cup Descendants(c)
           IN  IF last.flag
               THEN \A i \in 1 .. Len(calls) :
                        /\ calls[i] \notin subtree
                        /\ calls[i] \in {last.self} \cup Ancestors(last.self)
                        /\ contentItems[calls[i]] = <<>>
               ELSE /\ \A m \in subtree :
                           Cardinality({i \in 1 .. Len(calls) :
                                            calls[i] = m}) = 1
                    /\ calls[1] = c
                    /\ \A i, j \in 1 .. Len(calls) :
                           (calls[i] \in Descendants(c)
                            /\ calls[j] \in Descendants(calls[i])) => j < i

\* a child with two children and a grandchild has been removed and torn down
C14_Witness ==
    /\ last.op = "removeChild"
    /\ last.err = NoError
    /\ ~last.flag
    /\ Len(contentItems[last.arg]) = 2
    /\ Cardinality(Descendants(last.arg)) = 3
    /\ Len(CalledOn("_$destroy")) >= 4
    /\ CalledOn("_$destroy")[1] = last.arg


\* C15: a replaceChild(oldChild, newChild) that returns normally leaves the
\* children of the receiver with the same length, newChild at the index of
\* oldChild, every other index as it was and newChild.parent the receiver;
\* processChildReplaced is invoked once, with that index and newChild, when
\* newChild is wired in, after any teardown of oldChild and before any _$init
\* of newChild; the calls that end the operation are the setSize calls of the
\* top-down walk over the receiver and everything below it.
C15_ReplaceChildRewires ==
    [][\A r, new \in Nodes :
        (/\ last'.op = "replaceChild"
         /\ last'.err = NoError
         /\ last'.self = r
         /\ last'.arg2 = new)
        => LET i == indexOf(last'.arg, contentItems[r])
               t == trace'
               hooks == {k \in 1 .. Len(t) :
                             t[k].call = "processChildReplaced"}
               resize == {k \in 1 .. Len(t) :
                              \A j \in k .. Len(t) : t[j].call = "setSize"}
           IN  /\ i # -1
               /\ Len(contentItems'[r]) = Len(contentItems[r])
               /\ contentItems'[r][i + 1] = new
               /\ \A j \in 1 .. Len(contentItems[r]) :
                      j # i + 1 => contentItems'[r][j] = contentItems[r][j]
               /\ parent'[new] = r
               /\ \E h \in hooks :
                      /\ hooks = {h}
                      /\ t[h] = Call("processChildReplaced", new, "wired", i)
                      /\ \A k \in 1 .. Len(t) :
                             /\ t[k].call = "_$destroy" => k < h
                             /\ t[k].call = "_$init"
                                    => k > h /\ t[k].node = new
                      /\ \A k \in resize : k > h
               /\ (isInitialised[r] /\ ~isInitialised[new])
                      => \E k \in 1 .. Len(t) :
                             t[k] = Call("_$init", new, "", Null)
               /\ resize # {}
               /\ {t[k].node : k \in resize}
                      = ({r} \cup Descendants(r))'
               /\ t[CHOOSE k \in resize : \A j \in resize : k <= j].node = r]_vars

\* the old child torn down, the new one wired in its place and initialised
C15_Witness ==
    /\ last.op = "replaceChild"
    /\ last.err = NoError
    /\ last.flag
    /\ last.arg \in destroyed
    /\ contentItems[last.self] = <<last.arg2>>
    /\ parent[last.arg2] = last.self
    /\ isInitialised[last.arg2]
    /\ \E k \in 1 .. Len(trace) : trace[k] = Call("_$init", last.arg2, "", Null)


\* C16: n.remove() on a node with a parent ends as n.parent.removeChild(n)
\* with keepChild false does from the same state: the same fields of every
\* node, the same calls in the same order, the same outcome; on a node
\* without a parent it fails, with no call made and no field changed.
C16_RemoveIsParentRemoveChild ==
    [][\A n \in Nodes :
        (last'.op = "remove" /\ last'.self = n)
        => IF parent[n] = Null
           THEN /\ last'.err # NoError
                /\ trace' = <<>>
                /\ UNCHANGED <<contentItems, config, parent, isInitialised,
                               destroyed, pending, frames>>
           ELSE LET R == removeChild(Heap, parent[n], n, FALSE)
                IN  /\ contentItems' = R.contentItems
                    /\ config' = R.config
                    /\ parent' = R.parent
                    /\ isInitialised' = R.isInitialised
                    /\ destroyed' = R.destroyed
                    /\ pending' = R.pending
                    /\ frames' = R.frames
                    /\ trace' = R.trace
                    /\ last'.err = R.err]_vars

\* remove() on the only child of a closable node: the node is torn down with
\* what is below it and the cascade takes its emptied parent out as well
C16_Witness ==
    /\ last.op = "remove"
    /\ last.err = NoError
    /\ contentItems[last.self] # <<>>
    /\ {last.self} \cup Descendants(last.self) \subseteq destroyed
    /\ parent[last.self] \in destroyed
    /\ ~Held(last.self)
    /\ ~Held(parent[last.self])


\* C17: no operation makes an initialised node uninitialised, and a node
\* becomes initialised only by a _$init call of that operation on it;
\* addChild on an initialised receiver with an uninitialised node runs _$init
\* on that node, once, and leaves it initialised; addChild on an uninitialised
\* receiver, or with a node already initialised, runs no _$init on the node
\* and leaves its flag as it was.
C17_InitialisedOnceAndForGood ==
    [][/\ \A n \in Nodes :
              /\ isInitialised[n] => isInitialised'[n]
              /\ (~isInitialised[n] /\ isInitialised'[n])
                     => \E k \in 1 .. Len(trace') :
                            trace'[k] = Call("_$init", n, "", Null)
              /\ Cardinality({k \in 1 .. Len(trace') :
                                  trace'[k] = Call("_$init", n, "", Null)})
                     <= 1
              /\ isInitialised[n]
                     => \A k \in 1 .. Len(trace') :
                            trace'[k] # Call("_$init", n, "", Null)
       /\ \A r, n \in Nodes :
              (last'.op = "addChild" /\ last'.self = r /\ last'.arg = n)
              => LET inits == {k \in 1 .. Len(trace') :
                                   trace'[k] = Call("_$init", n, "", Null)}
                 IN  IF isInitialised[r] /\ ~isInitialised[n]
                     THEN Cardinality(inits) = 1 /\ isInitialised'[n]
                     ELSE inits = {}
                          /\ isInitialised'[n] = isInitialised[n]]_vars

\* an uninitialised node added to an initialised receiver came out initialised
C17_Witness ==
    /\ last.op = "addChild"
    /\ last.err = NoError
    /\ isInitialised[last.self]
    /\ isInitialised[last.arg]
    /\ \E k \in 1 .. Len(trace) : trace[k] = Call("_$init", last.arg, "", Null)
    /\ Len(contentItems[last.self]) = 2


\* C18: a bubbling event with a name outside the throttled set, emitted on a
\* node that is initialised together with all the nodes above it, is emitted
\* on that node, then on its parent, and so on up to the topmost node (the
\* root or the first node without a parent), each once and in that order;
\* the topmost node and no other hands it to the layout manager, which
\* receives it exactly once.
C18_BubblesToTopThenDelivered ==
    (/\ last.op = "emitBubblingEvent"
     /\ last.name \notin throttledEvents
     /\ InInitialisedTree(last.self))
        => LET chain == ChainUp(last.self)
               top == chain[Len(chain)]
           IN  /\ CalledOn("emit") = chain
               /\ top = TopOf(last.self)
               /\ IsRoot(top) \/ parent[top] = Null
               /\ CalledOn("scheduleEventPropagationToLayoutManager")
                      = <<top>>
               /\ Len(trace) = Len(chain) + 2
               /\ trace[Len(chain) + 1] =
                      Call("scheduleEventPropagationToLayoutManager", top,
                           last.name, Null)
               /\ trace[Len(chain) + 2] =
                      Call("layoutManager.emit", last.self, last.name, Null)

\* an event of the component has passed the stack and the row and has been
\* delivered from the root
C18_Witness ==
    /\ last.op = "emitBubblingEvent"
    /\ last.name = "itemCreated"
    /\ last.self = 3
    /\ CalledOn("emit") = <<3, 2, 1, RootNode>>
    /\ CalledOn("scheduleEventPropagationToLayoutManager") = <<RootNode>>
    /\ CalledOn("layoutManager.emit") = <<3>>


\* the places of the chain above n at which an event stops: the node whose
\* subscriber stops it and the nodes that are not initialised
Blocked(n, stopAt) ==
    {i \in 1 .. Len(ChainUp(n)) :
         ChainUp(n)[i] = stopAt \/ ~isInitialised[ChainUp(n)[i]]}

\* C19: setTitle emits titleChanged and stateChanged on its node and on no
\* other, and nothing reaches the layout manager, at once or by a flush; a
\* bubbling event that meets, on its way up, a node whose subscriber stops it
\* or a node that is not initialised is emitted on the nodes up to that one
\* and on none above, and nothing reaches the layout manager, at once or by a
\* flush.
C19_NotForwarded ==
    [][\A n \in Nodes :
        /\ (last'.op = "setTitle" /\ last'.self = n)
               => /\ trace' = <<Call("emit", n, "titleChanged", Null),
                                Call("emit", n, "stateChanged", Null)>>
                  /\ frames' = frames
                  /\ pending' = pending
        /\ (/\ last'.op = "emitBubblingEvent"
            /\ last'.self = n
            /\ \E k \in Nodes \cup {Null} :
                   last'.arg = k /\ Blocked(n, k) # {})
               => \E k \in Nodes \cup {Null} :
                      /\ last'.arg = k
                      /\ LET b == CHOOSE i \in Blocked(n, k) :
                                      \A j \in Blocked(n, k) : i <= j
                         IN  trace' = [i \in 1 .. b |->
                                          Call("emit", ChainUp(n)[i],
                                               last'.name, Null)]
                      /\ frames' = frames
                      /\ pending' = pending]_vars

\* an event of the component stopped by a subscriber of the row, in a layout
\* that is initialised throughout: the root has not seen it
C19_Witness ==
    /\ last.op = "emitBubblingEvent"
    /\ last.self = 3
    /\ last.arg = 1
    /\ \A n \in 0 .. 3 : isInitialised[n]
    /\ parent[1] = RootNode
    /\ CalledOn("emit") = <<3, 2, 1>>
    /\ Len(trace) = 3


\* C20 as stated: stateChanged emitted on a node of an initialised tree sets
\* the pending flag of that node, and the flush outstanding for the burst is
\* one of that node: one flush, hence one delivery, for every node a burst
\* was emitted on.
C20_CoalescedAtOrigin ==
    (/\ last.op = "emitBubblingEvent"
     /\ last.name \in throttledEvents
     /\ InInitialisedTree(last.self))
        => /\ last.name \in pending[last.self]
           /\ \E i \in 1 .. Len(frames) :
                  /\ frames[i].name = last.name
                  /\ frames[i].node = last.self
                  /\ frames[i].origin = last.self

\* C20 amended: stateChanged emitted on a node of an initialised tree sets the
\* pending flag of the topmost node of that tree (the root, or the first node
\* without a parent) and of no other node; one flush is outstanding for that
\* topmost node whatever the number of nodes below it that emitted, carrying
\* the origin of the first occurrence of the burst; flags and flushes exist
\* only at topmost nodes.
C20_CoalescedAtTop ==
    /\ (/\ last.op = "emitBubblingEvent"
        /\ last.name \in throttledEvents
        /\ InInitialisedTree(last.self))
           => LET top == TopOf(last.self)
              IN  /\ last.name \in pending[top]
                  /\ Cardinality(Outstanding(top)) = 1
                  /\ \A i \in Outstanding(top) :
                         /\ frames[i].name = last.name
                         /\ TopOf(frames[i].origin) = top
                         /\ burst[top] = 1 => frames[i].origin = last.self
    /\ \A n \in Nodes :
           /\ pending[n] # {} => IsRoot(n) \/ parent[n] = Null
           /\ Cardinality(Outstanding(n)) <= 1
           /\ Outstanding(n) # {} <=> pending[n] # {}

\* stateChanged emitted on the component and then on the stack, in a layout
\* initialised throughout: one flush, kept by the root, with the component as
\* origin
C20_Witness ==
    /\ last.op = "emitBubblingEvent"
    /\ last.name = "stateChanged"
    /\ last.self = 2
    /\ parent[1] = RootNode
    /\ burst[RootNode] = 2
    /\ Len(frames) = 1
    /\ frames[1] = [node |-> RootNode, name |-> "stateChanged", origin |-> 3]
    /\ pending[2] = {}
    /\ pending[3] = {}

\* C21: the batching neither drops nor duplicates across windows: a pending
\* flag is set exactly while one flush is outstanding for it (never set with
\* none outstanding, never two outstanding); every callback handed to
\* animFrame running eventually, a set flag leads to the flush of that node,
\* which makes one delivery to the layout manager and resets the flag; and a
\* stateChanged emitted in an initialised tree whose flag is not set sets it
\* and schedules one flush.
C21_FlushedAndRearmed ==
    /\ [](\A t \in Nodes :
             /\ Cardinality(Outstanding(t)) <= 1
             /\ "stateChanged" \in pending[t] <=> Outstanding(t) # {})
    /\ \A t \in Nodes :
           ("stateChanged" \in pending[t])
               ~> (/\ last.op = "animFrame"
                   /\ last.self = t
                   /\ Cardinality(Deliveries("stateChanged")) = 1
                   /\ "stateChanged" \notin pending[t]
                   /\ Outstanding(t) = {})
    /\ [][(/\ last'.op = "emitBubblingEvent"
           /\ last'.name = "stateChanged"
           /\ InInitialisedTree(last'.self)
           /\ "stateChanged" \notin pending[TopOf(last'.self)])
              => /\ "stateChanged" \in pending'[TopOf(last'.self)]
                 /\ Len(frames') = Len(frames) + 1
                 /\ frames'[Len(frames')].node = TopOf(last'.self)]_vars

\* the row is the top of a subtree of its own: its flush has run, has made
\* one delivery and has reset its flag, while the flush of the root is still
\* outstanding with the flag of the root set
C21_Witness ==
    /\ last.op = "animFrame"
    /\ last.name = "stateChanged"
    /\ last.self = 1
    /\ last.index >= 1
    /\ Cardinality(Deliveries("stateChanged")) = 1
    /\ pending[1] = {}
    /\ Outstanding(1) = {}
    /\ "stateChanged" \in pending[RootNode]
    /\ Cardinality(Outstanding(RootNode)) = 1

\* C22: after any sequence of addId / removeId calls the config.id of a node
\* is absent, a single string or a non-empty sequence of strings, never an
\* empty sequence.
C22_IdNeverEmptySequence ==
    \A n \in Nodes :
        LET cid == config[n].id
        IN  \/ cid = IdUndefined
            \/ cid.t = "string" /\ cid.s \in Ids
            \/ cid.t = "array" /\ cid.a # <<>>
                /\ \A i \in 1 .. Len(cid.a) : cid.a[i] \in Ids

\* C23: _$getArea called without a handle uses the node's own element: it
\* returns null when the node has no element, and otherwise, for an element
\* of width W and height H at offset (ox, oy), returns x1 = ox, y1 = oy,
\* x2 = ox + W, y2 = oy + H, surface = W * H and contentItem the node.
C23_GetAreaOfOwnElement ==
    (last.op = "_$getArea" /\ ~last.result[1].defined)
        => LET own == last.result[2]
               area == last.result[3]
           IN  IF ~own.defined
               THEN area.returned /\ area.isNull
               ELSE /\ area.returned /\ ~area.isNull
                    /\ area.x1 = own.left
                    /\ area.y1 = own.top
                    /\ area.x2 = own.left + own.width
                    /\ area.y2 = own.top + own.height
                    /\ area.surface = own.width * own.height
                    /\ area.contentItem = last.self

\* the id is the scalar cid or an element of the sequence cid
Present(cid, id) ==
    \/ cid.t = "string" /\ cid.s = id
    \/ cid.t = "array" /\ \E i \in 1 .. Len(cid.a) : cid.a[i] = id

\* the elements of arr other than id, in their order
Without(arr, id) == SelectSeq(arr, LAMBDA x : x # id)

C25_InitCoversSubtree ==
    /\ \A k \in 1 .. Len(trace) :
           (trace[k].call = "_$init" /\ last.err = NoError)
               => \A d \in {trace[k].node} \cup Descendants(trace[k].node) :
                      isInitialised[d]
    /\ \A n \in Nodes :
           isInitialised[n] => \A c \in Children(n) : isInitialised[c]

\* the places in the trace of the last operation at which call c is made
At(c) == {k \in 1 .. Len(trace) : trace[k] = c}

\* every place of set a is before every place of set b
Before(a, b) == \A i \in a : \A j \in b : i < j

\* C26: for every initialised node destroyed through removeChild in an
\* initialised tree the layout manager receives beforeItemDestroyed for the
\* node, then the element of the node is removed, then the layout manager
\* receives itemDestroyed for the node, once each and in that order; the two
\* notifications of the removed child precede those of all its descendants.
C26_DestroyNotificationsInOrder ==
    last.op \in {"removeChild", "remove"}
        => LET c == IF last.op = "remove" THEN last.self ELSE last.arg
               before(n) == At(Call("layoutManager.emit", n,
                                    "beforeItemDestroyed", Null))
               detach(n) == At(Call("element.remove", n, "", Null))
               after(n) == At(Call("layoutManager.emit", n, "itemDestroyed",
                                   Null))
               gone == {n \in destroyed : InInitialisedTree(n)}
           IN  /\ \A n \in gone :
                      /\ Cardinality(before(n)) = 1
                      /\ Cardinality(detach(n)) = 1
                      /\ Cardinality(after(n)) = 1
                      /\ Before(before(n), detach(n))
                      /\ Before(detach(n), after(n))
               /\ c \in gone
                      => \A d \in gone \cap Descendants(c) :
                             Before(after(c), before(d))

\* the stack under the row was removed with the component below it, the row
\* under the root staying with another child: both were initialised
C26_Witness ==
    /\ last.op = "removeChild"
    /\ last.err = NoError
    /\ ~last.flag
    /\ last.arg \in destroyed
    /\ InInitialisedTree(last.arg)
    /\ \E d \in Descendants(last.arg) :
           d \in destroyed /\ InInitialisedTree(d)
    /\ last.self \notin destroyed

\* the nodes reachable from the root by children links
InTree == {RootNode} \cup Descendants(RootNode)

\* the nodes on which the last operation invoked _$destroy
TornDown == {trace[k].node : k \in {j \in 1 .. Len(trace) :
                                        trace[j].call = "_$destroy"}}

\* C27: after removeChild (keepChild false) or replaceChild (destroyOld true)
\* returns, no node on which teardown was invoked is a child of a node
\* reachable from the root, and every node that left the tree through the
\* call has had teardown invoked on it.
C27_DestructionTerminal ==
    [][(/\ last'.op \in {"removeChild", "replaceChild"}
        /\ last'.err = NoError
        /\ last'.flag = (last'.op = "replaceChild"))
       => /\ TornDown' \cap InTree' = {}
          /\ (InTree \ InTree') \subseteq TornDown']_vars

\* C30: replaceChild(oldChild, newChild, true) tears down the whole subtree
\* of oldChild as removeChild does: _$destroy is invoked exactly once on
\* oldChild and on every one of its descendants, and the beforeItemDestroyed
\* and itemDestroyed notifications of an initialised oldChild reach the
\* layout manager.
C30_ReplaceTearsDownSubtree ==
    [][(/\ last'.op = "replaceChild"
        /\ last'.err = NoError
        /\ last'.flag)
       => LET old == last'.arg
          IN  /\ \A d \in {old} \cup Descendants(old) :
                     Cardinality({k \in 1 .. Len(trace') :
                                      trace'[k] = Call("_$destroy", d, "",
                                                       Null)}) = 1
              /\ isInitialised[old]
                     => \A name \in {"beforeItemDestroyed", "itemDestroyed"} :
                            \E k \in 1 .. Len(trace') :
                                trace'[k] = Call("layoutManager.emit", old,
                                                 name, Null)]_vars

\* the user configuration has an unrecognised type, or is a component or a
\* react-component without componentName, or holds such an item in its
\* content at any depth
RECURSIVE Faulty(_)
Faulty(user) ==
    \/ user.type \notin {"root", "row", "column", "stack", "component",
                         "react-component"}
    \/ user.type \in {"component", "react-component"}
           /\ ~user.componentName.defined
    \/ user.content.defined
           /\ \E i \in 1 .. Len(user.content.v) : Faulty(user.content.v[i])

\* the configuration has a type, a content and every property an item has,
\* and so has every item in its content at any depth
RECURSIVE Complete(_)
Complete(cfg) ==
    /\ ItemKeys \cup {"type", "content"} \subseteq DOMAIN cfg
    /\ cfg.type \in {"component", "react-component"}
           => "componentName" \in DOMAIN cfg
    /\ \A i \in 1 .. Len(cfg.content) : Complete(cfg.content[i])

\* C28: UserItemConfig.resolveDefaults fails with an error exactly when the
\* item, or an item nested anywhere in its content, has an unrecognised type
\* or is a component / react-component without componentName; in every
\* other case it returns a configuration, resolved at every depth.
C28_ThrowsIffFaulty ==
    last.op = "resolveDefaults"
        => LET user == last.result[1]
               out == last.result[2]
           IN  /\ ~out.returned <=> Faulty(user)
               /\ ~out.returned <=> out.err # NoError
               /\ out.err \in {NoError, UnreachableTypeError, JsonNameError,
                                ReactNameError}
               /\ out.returned => Complete(out.v)

\* a component without componentName two levels below an item that is
\* itself well formed: the call threw
C28_Witness ==
    /\ last.op = "resolveDefaults"
    /\ last.err = JsonNameError
    /\ LET user == last.result[1]
       IN  /\ user.type = "root"
           /\ user.content.defined
           /\ \E i \in 1 .. Len(user.content.v) :
                  LET c == user.content.v[i]
                  IN  /\ c.type \in {"row", "stack"}
                      /\ c.content.defined
                      /\ \E j \in 1 .. Len(c.content.v) :
                             /\ c.content.v[j].type = "component"
                             /\ ~c.content.v[j].componentName.defined

\* the default of property k for the user configuration of an item
DefaultOf(user, k) ==
    IF k = "title" /\ user.type \in {"component", "react-component"}
    THEN user.componentName.v
    ELSE defaults[k]

\* cfg is the resolution of user: content of the same length resolved item
\* by item, the type kept, supplied properties kept, absent ones defaulted
RECURSIVE Resolves(_, _)
Resolves(user, cfg) ==
    /\ Len(cfg.content)
           = (IF user.content.defined THEN Len(user.content.v) ELSE 0)
    /\ \A i \in 1 .. Len(cfg.content) :
           Resolves(user.content.v[i], cfg.content[i])
    /\ user.type \in {"root", "row", "column", "stack", "component"}
           => cfg.type = user.type
    /\ \A k \in ItemKeys :
           cfg[k] = IF user[k].defined THEN user[k].v ELSE DefaultOf(user, k)

\* C29: default resolution preserves the structure and is total on the
\* keys: undefined content resolves to the empty sequence, other content to
\* a sequence of the same length whose i-th element is the resolution of the
\* i-th input, at every depth; in each resolved item the type is kept for
\* containers and json components, every supplied width, height, id,
\* isClosable, reorderEnabled, title and activeItemIndex is kept and each
\* absent one takes its default (50, 50, '', true, true, '' for containers
\* or componentName for components, -1).
C29_ResolutionPreservesStructure ==
    (last.op = "resolveDefaults" /\ last.result[2].returned)
        => /\ Resolves(last.result[1], last.result[2].v)
           /\ Complete(last.result[2].v)

\* a json component two levels down that supplies the empty title and
\* nothing else: the title stays empty, the other properties are defaults
C29_Witness ==
    /\ last.op = "resolveDefaults"
    /\ last.err = NoError
    /\ LET cfg == last.result[2].v
       IN  /\ Len(cfg.content) = 2
           /\ \E i \in 1 .. Len(cfg.content) :
              \E j \in 1 .. Len(cfg.content[i].content) :
                  LET c == cfg.content[i].content[j]
                  IN  /\ c.type = "component"
                      /\ c.componentName = "name"
                      /\ c.title = ""
                      /\ c.width = defaults.width
                      /\ c.activeItemIndex = defaults.activeItemIndex

\* C31: getItemsById(id) and hasId(id) agree for every id and every
\* representation of config.id: getItemsById(id) on a receiver returns
\* exactly the proper descendants d for which d.hasId(id) is true, each once.
C31_GetItemsByIdAgreesWithHasId ==
    last.op = "getItemsById"
        => /\ {last.result[i] : i \in 1 .. Len(last.result)}
                  = {d \in Descendants(last.self) :
                         hasId(config[d].id, last.name)}
           /\ \A i, j \in 1 .. Len(last.result) :
                  last.result[i] = last.result[j] => i = j

\* C32: removeChild of a current child never fails after it has started
\* mutating: for every receiver, a closable non-root receiver without a
\* parent included, the call completes, or raises its error with the
\* children and config.content of every node unchanged.
C32_RemoveChildFailsBeforeMutating ==
    [][(/\ last'.op = "removeChild"
        /\ last'.arg \in Children(last'.self))
       => \/ last'.err = NoError
          \/ /\ contentItems' = contentItems
             /\ \A n \in Nodes : config'[n].content = config[n].content]_vars

====
